---- MODULE Spec2Model ----
(***************************************************************************)
(* Payment analytics: the validation, cleaning and aggregation core of     *)
(* src/srs (validation.py, data_loading.py, main.py).                      *)
(*                                                                         *)
(* A DataFrame is a record [columns, rows]: a set of column names and a    *)
(* sequence of rows, each row a function from the column names to cells.   *)
(* A cell is missing (NaN), a number n/d, or a string.                     *)
(***************************************************************************)
EXTENDS Integers, Sequences, FiniteSets

VARIABLES pc, sheet_name, df0, df1, df, countries, methods,
          monthly_stats, country_stats, method_stats, error, log,
          exists, sheets, missing_sheets, stages, exit_code, plot_saved, excel_saved

\* the input file, the trace of stages started, and the outputs of one run of main
run == <<exists, sheets, missing_sheets, stages, exit_code, plot_saved, excel_saved>>

vars == <<pc, sheet_name, df0, df1, df, countries, methods,
          monthly_stats, country_stats, method_stats, error, log, run>>

\* ------------------------------------------------------------------ bounds
MaxRows == 2

MaxTxRows == 2

MaxCount == 1

\* a function called on its own: no file is open and no process runs
NoRun ==
    /\ exists = TRUE
    /\ sheets = <<>>
    /\ missing_sheets = {}
    /\ stages = <<>>
    /\ exit_code = -1
    /\ plot_saved = FALSE
    /\ excel_saved = FALSE

\* ------------------------------------------------------------------- cells
NaN == [t |-> "nan", n |-> 0, d |-> 1, s |-> ""]

Inf == [t |-> "inf", n |-> 0, d |-> 1, s |-> ""]

Num(i) == [t |-> "num", n |-> i, d |-> 1, s |-> ""]

Str(x) == [t |-> "str", n |-> 0, d |-> 1, s |-> x]

isnull(c) == c.t = "nan"

\* ------------------------------------------------------------------ tables
DataFrame(cols, rws) == [columns |-> cols, rows |-> rws]

NoFrame == DataFrame({}, <<>>)

NoStats == [k \in {} |-> NaN]

\* df.empty: any axis of length 0
empty(d) == Len(d.rows) = 0 \/ d.columns = {}

\* df.isnull().values.any()
isnull_any(d) == \E i \in 1..Len(d.rows) : \E c \in d.columns : isnull(d.rows[i][c])

\* df.select_dtypes(include='number').columns: a column holding only numbers
\* and missing cells is read as int64/float64, anything else as object
num_cols(d) == {c \in d.columns : \A i \in 1..Len(d.rows) : d.rows[i][c].t \in {"nan", "num"}}

\* df.select_dtypes(exclude='number').columns
cat_cols(d) == d.columns \ num_cols(d)

\* fillna(value, limit=1): only the first missing cell of each column is filled
fillna_limit(d, cols, value) ==
    DataFrame(d.columns,
              [i \in 1..Len(d.rows) |->
                 [c \in d.columns |->
                    IF /\ c \in cols
                       /\ isnull(d.rows[i][c])
                       /\ \A j \in 1..(i - 1) : ~isnull(d.rows[j][c])
                    THEN value ELSE d.rows[i][c]]])

\* df[cols] = df[cols].fillna(value)
fillna(d, cols, value) ==
    DataFrame(d.columns,
              [i \in 1..Len(d.rows) |->
                 [c \in d.columns |->
                    IF c \in cols /\ isnull(d.rows[i][c]) THEN value ELSE d.rows[i][c]]])

\* ---------------------------------------------------------- required sets
SheetNames == {"data", "country", "method_group"}

required_columns(sheet) ==
    CASE sheet = "data" -> {"month", "currency", "method", "total transactions"}
      [] sheet = "country" -> {"currency", "country"}
      [] sheet = "method_group" -> {"method_in_dwh", "method_group"}

\* --------------------------------------------------------------- validator
\* the column check written as "none of the required columns is present"
validate_data_disjoint(d, sheet, required) ==
    IF empty(d) THEN "ValueError: empty sheet"
    ELSE IF required # {} /\ required \cap d.columns = {} THEN "ValueError: missing columns"
    ELSE "ok"

\* a missing cell raised as an error instead of logged as a warning
validate_data_strict(d, sheet, required) ==
    IF empty(d) THEN "ValueError: empty sheet"
    ELSE IF isnull_any(d) THEN "ValueError: missing values"
    ELSE IF required # {} /\ required \ d.columns # {} THEN "ValueError: missing columns"
    ELSE "ok"

\* the verdict of validate_data: "ok" or the ValueError it raises
validate_data(d, sheet, required) ==
    IF empty(d) THEN "ValueError: empty sheet"
    ELSE IF required # {} /\ required \ d.columns # {} THEN "ValueError: missing columns"
    ELSE "ok"

\* the warning validate_data logs before the column check
validate_log(d) ==
    IF ~empty(d) /\ isnull_any(d) THEN <<"WARNING">> ELSE <<>>

\* ----------------------------------------------------------------- cleaner
\* the generic sentinel written into every column, before the numeric fill
clean_data_unknown_first(d) ==
    IF isnull_any(d)
    THEN LET a == fillna(d, d.columns, Str("Unknown"))
             b == fillna(a, num_cols(a), Num(0))
         IN  IF "method_in_dwh" \in b.columns
             THEN fillna(b, {"method_in_dwh"}, Str("unknown_method"))
             ELSE b
    ELSE d

\* df.dropna() in place of the fills: rows with a missing cell are removed
clean_data_dropna(d) ==
    IF isnull_any(d)
    THEN DataFrame(d.columns,
                   SelectSeq(d.rows, LAMBDA r : \A c \in d.columns : ~isnull(r[c])))
    ELSE d

clean_data(d) ==
    IF isnull_any(d)
    THEN LET a == fillna(d, num_cols(d), Num(0))
             b == fillna(a, cat_cols(a), Str("Unknown"))
         IN  IF "method_in_dwh" \in b.columns
             THEN fillna(b, {"method_in_dwh"}, Str("unknown_method"))
             ELSE b
    ELSE d

clean_log(d) == IF isnull_any(d) THEN <<"INFO">> ELSE <<>>

\* ------------------------------------------------------------- aggregation
RECURSIVE SortedSeq(_)
\* the numbers of S in increasing order
SortedSeq(S) ==
    IF S = {} THEN <<>>
    ELSE LET m == CHOOSE x \in S : \A y \in S : x <= y
         IN  <<m>> \o SortedSeq(S \ {m})

\* the (left, right) row pairs of a how='left' merge for left row i: one pair
\* per matching right row, in the right table's order, or (i, 0) without a match
left_matches(left, right, left_on, right_on, i) ==
    LET js == {j \in 1..Len(right.rows) : right.rows[j][right_on] = left.rows[i][left_on]}
        sq == SortedSeq(js)
    IN  IF js = {} THEN <<[l |-> i, r |-> 0]>>
        ELSE [p \in 1..Len(sq) |-> [l |-> i, r |-> sq[p]]]

RECURSIVE merge_index(_, _, _, _, _)
\* the row pairs of pd.merge(left, right, how='left') for left rows i..end
merge_index(left, right, left_on, right_on, i) ==
    IF i > Len(left.rows) THEN <<>>
    ELSE left_matches(left, right, left_on, right_on, i)
            \o merge_index(left, right, left_on, right_on, i + 1)

\* pd.merge(left, right, left_on=..., right_on=..., how='left'): the right
\* table's columns are missing in a row without a match
merge(left, right, left_on, right_on) ==
    LET idx == merge_index(left, right, left_on, right_on, 1)
        cols == left.columns \cup right.columns
    IN  DataFrame(cols,
                  [p \in 1..Len(idx) |->
                     [c \in cols |->
                        IF c \in left.columns THEN left.rows[idx[p].l][c]
                        ELSE IF idx[p].r = 0 THEN NaN
                        ELSE right.rows[idx[p].r][c]]])

AggColumns == {"total transactions", "approved_ transactions", "volume_usd"}

RECURSIVE group_count(_, _, _, _, _)
\* 'count' in place of 'sum': the number of rows i..end of d whose key holds k
group_count(d, by, k, c, i) ==
    IF i > Len(d.rows) THEN 0
    ELSE (IF d.rows[i][by] = k THEN 1 ELSE 0) + group_count(d, by, k, c, i + 1)

RECURSIVE group_sum(_, _, _, _, _)
\* the 'sum' of column c over the rows i..end of d whose key column holds k
group_sum(d, by, k, c, i) ==
    IF i > Len(d.rows) THEN 0
    ELSE (IF d.rows[i][by] = k THEN d.rows[i][c].n ELSE 0) + group_sum(d, by, k, c, i + 1)

\* the groups of df.groupby(by): rows with a missing key are left out
group_keys(d, by) == {d.rows[i][by] : i \in 1..Len(d.rows)} \ {NaN}

\* df.groupby(by).agg({...: 'sum'}).reset_index(): one row per key
groupby_agg(d, by) ==
    [k \in group_keys(d, by) |-> [c \in AggColumns |-> Num(group_sum(d, by, k, c, 1))]]

\* the denominator used as it is, without replace(0, 1)
replace_none(c) == c

\* Series.replace(0, 1)
replace01(c) == IF c.t = "num" /\ c.n = 0 THEN Num(1) ELSE c

\* a / b on float columns: x/0 is inf, 0/0 is missing, no exception
truediv(a, b) ==
    IF b.n = 0 THEN (IF a.n = 0 THEN NaN ELSE Inf)
    ELSE [t |-> "num", n |-> a.n * b.d, d |-> a.d * b.n, s |-> ""]

\* the rate taken over the wrong column: approved_ transactions / volume_usd
approval_rate_by_volume(row) ==
    truediv(row["approved_ transactions"], replace01(row["volume_usd"]))

\* approved_ transactions / total transactions.replace(0, 1) of one summary row
approval_rate(row) ==
    truediv(row["approved_ transactions"], replace01(row["total transactions"]))

\* stats['approval_rate'] = ...
with_approval_rate(stats) ==
    [k \in DOMAIN stats |->
        [c \in AggColumns \cup {"approval_rate"} |->
            IF c = "approval_rate" THEN approval_rate(stats[k]) ELSE stats[k][c]]]

\* pd.merge refuses a string key column against a numeric one
key_mismatch(l, left_on, r, right_on) ==
    (left_on \in num_cols(l)) # (right_on \in num_cols(r))

\* a column the merges, the group-bys or the aggregations look up is absent,
\* or the key columns of a merge differ in type
agg_fault(d, cs, ms) ==
    \/ "currency" \notin d.columns \/ "currency" \notin cs.columns
    \/ "method" \notin d.columns \/ "method_in_dwh" \notin ms.columns
    \/ "month" \notin d.columns
    \/ ~(AggColumns \subseteq d.columns)
    \/ "country" \notin d.columns \cup cs.columns
    \/ "method_group" \notin d.columns \cup ms.columns
    \/ key_mismatch(d, "currency", cs, "currency")
    \/ key_mismatch(d, "method", ms, "method_in_dwh")

\* the fault the statements of merge_and_calculate raise first, in their order
agg_error(d, cs, ms) ==
    IF "currency" \notin d.columns \/ "currency" \notin cs.columns THEN "KeyError"
    ELSE IF key_mismatch(d, "currency", cs, "currency") THEN "ValueError: merge keys"
    ELSE IF "method" \notin d.columns \/ "method_in_dwh" \notin ms.columns THEN "KeyError"
    ELSE IF key_mismatch(d, "method", ms, "method_in_dwh") THEN "ValueError: merge keys"
    ELSE "KeyError"

\* the fault re-raised as a new generic exception
reraise_generic(kind) == "Exception"

\* except Exception as e: logger.error(...); raise
reraise(kind) == kind

df_with_countries(d, cs) == merge(d, cs, "currency", "currency")

df_with_methods(d, ms) == merge(d, ms, "method", "method_in_dwh")

\* the three summaries merge_and_calculate returns
merge_and_calculate(d, cs, ms) ==
    [monthly_stats |-> with_approval_rate(groupby_agg(d, "month")),
     country_stats |-> with_approval_rate(groupby_agg(df_with_countries(d, cs), "country")),
     method_stats  |-> with_approval_rate(groupby_agg(df_with_methods(d, ms), "method_group"))]

\* ------------------------------------------------------------ input tables
\* df is a table over a subset of cols with at most maxr rows of the given cells
IsTable(d, cols, cells, maxr) ==
    \E c \in SUBSET cols : \E k \in 0..maxr : \E r \in [1..k -> [c -> cells]] :
        d = DataFrame(c, r)

\* the columns a sheet is read with: its required ones and possibly volume_usd
SheetColumns(sheet) == required_columns(sheet) \cup {"volume_usd"}

ValidateCells == {NaN, Str("x")}

CleanColumns == {"method_in_dwh", "currency", "total transactions"}

CleanCells == {NaN, Num(7), Str("card")}

\* ===================================================== validate_data alone
InitValidate ==
    /\ pc = "loaded"
    /\ sheet_name \in SheetNames
    /\ IsTable(df, SheetColumns(sheet_name), ValidateCells, MaxRows)
    /\ df0 = df
    /\ df1 = NoFrame
    /\ countries = NoFrame
    /\ methods = NoFrame
    /\ monthly_stats = NoStats
    /\ country_stats = NoStats
    /\ method_stats = NoStats
    /\ error = "none"
    /\ log = <<>>
    /\ NoRun

\* one call validate_data(df, sheet_name, required) as load_data makes it
ValidateData ==
    /\ pc = "loaded"
    /\ LET verdict == validate_data(df, sheet_name, required_columns(sheet_name))
       IN  /\ error' = IF verdict = "ok" THEN "none" ELSE verdict
           /\ pc' = IF verdict = "ok" THEN "validated" ELSE "failed"
    /\ log' = log \o validate_log(df)
    /\ UNCHANGED <<sheet_name, df0, df1, df, countries, methods,
                   monthly_stats, country_stats, method_stats, run>>

NextValidate == ValidateData

SpecValidate == InitValidate /\ [][NextValidate]_vars

\* ======================================================== clean_data alone
InitClean ==
    /\ pc = "validated"
    /\ sheet_name \in SheetNames
    /\ IsTable(df, CleanColumns, CleanCells, MaxRows)
    /\ df0 = df
    /\ df1 = NoFrame
    /\ countries = NoFrame
    /\ methods = NoFrame
    /\ monthly_stats = NoStats
    /\ country_stats = NoStats
    /\ method_stats = NoStats
    /\ error = "none"
    /\ log = <<>>
    /\ NoRun

\* df = clean_data(df, sheet_name)
CleanData ==
    /\ pc = "validated"
    /\ df' = clean_data(df)
    /\ df1' = clean_data(df)
    /\ log' = log \o clean_log(df)
    /\ pc' = "cleaned"
    /\ UNCHANGED <<sheet_name, df0, countries, methods,
                   monthly_stats, country_stats, method_stats, error, run>>

\* a second pass clean_data(clean_data(df)); df1 keeps the first result
CleanDataAgain ==
    /\ pc = "cleaned"
    /\ df' = clean_data(df)
    /\ log' = log \o clean_log(df)
    /\ pc' = "cleaned_twice"
    /\ UNCHANGED <<sheet_name, df0, df1, countries, methods,
                   monthly_stats, country_stats, method_stats, error, run>>

NextClean == CleanData \/ CleanDataAgain

SpecClean == InitClean /\ [][NextClean]_vars

\* ================================================ merge_and_calculate alone
\* month, currency and method of the transaction rows
TxKeys == {<<"2024-01", "USD", "card">>, <<"2024-02", "EUR", "crypto">>}

Volumes == {10}

TxRow(k, total, approved, volume) ==
    [c \in {"month", "currency", "method"} \cup AggColumns |->
        CASE c = "month" -> Str(k[1])
          [] c = "currency" -> Str(k[2])
          [] c = "method" -> Str(k[3])
          [] c = "total transactions" -> Num(total)
          [] c = "approved_ transactions" -> Num(approved)
          [] c = "volume_usd" -> Num(volume)]

TxRows == {TxRow(k, t, a, v) : k \in TxKeys, t \in 0..MaxCount, a \in 0..MaxCount, v \in Volumes}

CountryRow(currency, country) ==
    [c \in {"currency", "country"} |-> IF c = "currency" THEN Str(currency) ELSE Str(country)]

MethodRow(method, group) ==
    [c \in {"method_in_dwh", "method_group"} |->
        IF c = "method_in_dwh" THEN Str(method) ELSE Str(group)]

\* country sheets: complete, lacking EUR, USD twice, EUR twice
CountryTables ==
    {DataFrame({"currency", "country"}, r) : r \in
        {<<CountryRow("USD", "US"), CountryRow("EUR", "DE")>>,
         <<CountryRow("USD", "US")>>,
         <<CountryRow("USD", "US"), CountryRow("USD", "DE")>>,
         <<CountryRow("USD", "US"), CountryRow("EUR", "DE"), CountryRow("EUR", "DE")>>}}

\* method_group sheets: complete, lacking crypto, card twice, one group for both
MethodTables ==
    {DataFrame({"method_in_dwh", "method_group"}, r) : r \in
        {<<MethodRow("card", "Cards"), MethodRow("crypto", "Wallets")>>,
         <<MethodRow("card", "Cards")>>,
         <<MethodRow("card", "Cards"), MethodRow("card", "Cards"),
           MethodRow("crypto", "Wallets")>>,
         <<MethodRow("card", "Cards"), MethodRow("crypto", "Cards")>>}}

\* d is a non-empty table of at most maxr rows drawn from rws
IsFrame(d, cols, rws, maxr) ==
    \E k \in 1..maxr : \E r \in [1..k -> rws] : d = DataFrame(cols, r)

\* the three tables as load_data returns them: validated and cleaned
InitAgg ==
    /\ pc = "cleaned"
    /\ sheet_name = "data"
    /\ IsFrame(df, {"month", "currency", "method"} \cup AggColumns, TxRows, MaxTxRows)
    /\ countries \in CountryTables
    /\ methods \in MethodTables
    /\ df0 = df
    /\ df1 = df
    /\ monthly_stats = NoStats
    /\ country_stats = NoStats
    /\ method_stats = NoStats
    /\ error = "none"
    /\ log = <<>>
    /\ NoRun

\* monthly_stats, country_stats, method_stats = merge_and_calculate(df, countries, methods)
MergeAndCalculate ==
    /\ pc = "cleaned"
    /\ IF agg_fault(df, countries, methods)
       THEN /\ pc' = "failed"
            /\ error' = reraise(agg_error(df, countries, methods))
            /\ log' = log \o <<"ERROR">>
            /\ UNCHANGED <<monthly_stats, country_stats, method_stats>>
       ELSE LET res == merge_and_calculate(df, countries, methods)
            IN  /\ monthly_stats' = res.monthly_stats
                /\ country_stats' = res.country_stats
                /\ method_stats' = res.method_stats
                /\ pc' = "calculated"
                /\ log' = log \o <<"INFO">>
                /\ UNCHANGED error
    /\ UNCHANGED <<sheet_name, df0, df1, df, countries, methods, run>>

NextAgg == MergeAndCalculate

SpecAgg == InitAgg /\ [][NextAgg]_vars

\* ============================================================ a run of main
\* the stages of main in the order of its statements
StageOrder ==
    <<"load",
      "validate data", "validate country", "validate method_group",
      "clean data", "clean country", "clean method_group",
      "merge", "plot", "excel">>

\* validation and cleaning swapped sheet by sheet: each sheet cleaned right
\* after its own validation
next_pc_by_sheet(stage) ==
    CASE stage = "load" -> "validate data"
      [] stage = "validate data" -> "clean data"
      [] stage = "clean data" -> "validate country"
      [] stage = "validate country" -> "clean country"
      [] stage = "clean country" -> "validate method_group"
      [] stage = "validate method_group" -> "clean method_group"
      [] stage = "clean method_group" -> "merge"
      [] stage = "merge" -> "plot"
      [] stage = "plot" -> "excel"
      [] stage = "excel" -> "finish"

\* the statement main (through load_data) runs after a stage that succeeded
next_pc(stage) ==
    CASE stage = "load" -> "validate data"
      [] stage = "validate data" -> "validate country"
      [] stage = "validate country" -> "validate method_group"
      [] stage = "validate method_group" -> "clean data"
      [] stage = "clean data" -> "clean country"
      [] stage = "clean country" -> "clean method_group"
      [] stage = "clean method_group" -> "merge"
      [] stage = "merge" -> "plot"
      [] stage = "plot" -> "excel"
      [] stage = "excel" -> "finish"

\* only the data sheet is looked for
required_sheets_data_only(present) == {"data"} \ present

\* missing_sheets = required_sheets - set(excel.sheet_names)
required_sheets_missing(present) == SheetNames \ present

\* main falls through after logging, without sys.exit(1)
exit_status_zero(failed) == 0

\* the exit status of the process: sys.exit(1) in the handler, 0 at the end of main
exit_status(failed) == IF failed THEN 1 ELSE 0

\* an exception in a stage: logged where it is caught first (ERROR), re-raised,
\* logged by main (CRITICAL), and the process exits
Fail(kind, logged) ==
    /\ error' = kind
    /\ pc' = "exited"
    /\ exit_code' = exit_status(TRUE)
    /\ log' = log \o logged \o <<"ERROR", "CRITICAL">>

\* ------------------------------------------------------------- input files
ExampleRow == TxRow(<<"2024-01", "USD", "card">>, 100, 80, 10000)

\* a row read with an empty currency and an empty total transactions cell
GapRow ==
    [c \in {"month", "currency", "method"} \cup AggColumns |->
        CASE c = "month" -> Str("2024-02")
          [] c = "currency" -> NaN
          [] c = "method" -> Str("crypto")
          [] c = "total transactions" -> NaN
          [] c = "approved_ transactions" -> Num(1)
          [] c = "volume_usd" -> Num(10)]

\* the data sheet complete, without approved_ transactions, without month
DataColumnSets ==
    LET all == {"month", "currency", "method"} \cup AggColumns
    IN  {all, all \ {"approved_ transactions"}, all \ {"month"}}

data_sheet(cols, r) ==
    DataFrame(cols, [i \in 1..Len(r) |-> [c \in cols |-> r[i][c]]])

\* country sheets: the example's, two rows, no rows, no country column, and an
\* empty currency cell (a numeric key column once cleaned)
CountrySheets ==
    {DataFrame({"currency", "country"}, <<CountryRow("USD", "US")>>),
     DataFrame({"currency", "country"}, <<CountryRow("USD", "US"), CountryRow("EUR", "DE")>>),
     DataFrame({"currency", "country"}, <<>>),
     DataFrame({"currency"}, <<[c \in {"currency"} |-> Str("USD")]>>),
     DataFrame({"currency", "country"},
               <<[c \in {"currency", "country"} |-> IF c = "currency" THEN NaN ELSE Str("US")]>>)}

\* method_group sheets: the example's, no rows, no method_group column, and an
\* empty method_in_dwh cell beside a filled one
MethodSheets ==
    {DataFrame({"method_in_dwh", "method_group"}, <<MethodRow("card", "Cards")>>),
     DataFrame({"method_in_dwh", "method_group"}, <<>>),
     DataFrame({"method_in_dwh"}, <<[c \in {"method_in_dwh"} |-> Str("card")]>>),
     DataFrame({"method_in_dwh", "method_group"},
               <<[c \in {"method_in_dwh", "method_group"} |->
                    IF c = "method_in_dwh" THEN NaN ELSE Str("Cards")],
                 MethodRow("card", "Cards")>>)}

\* the sheets of a file: those present, by name
sheets_of(present, d, c, m) ==
    [sh \in present |->
        CASE sh = "data" -> d
          [] sh = "country" -> c
          [] sh = "method_group" -> m]

\* the process before main runs: a path that may not exist, or a file with any
\* of the three sheets
Init ==
    /\ pc = "start"
    /\ exists \in BOOLEAN
    /\ \E present \in (IF exists THEN SUBSET SheetNames ELSE {{}}) :
       \E cols \in DataColumnSets : \E k \in 0..MaxRows : \E r \in [1..k -> {ExampleRow, GapRow}] :
       \E c \in CountrySheets : \E m \in MethodSheets :
          sheets = sheets_of(present, data_sheet(cols, r), c, m)
    /\ sheet_name = "data"
    /\ df0 = NoFrame
    /\ df1 = NoFrame
    /\ df = NoFrame
    /\ countries = NoFrame
    /\ methods = NoFrame
    /\ monthly_stats = NoStats
    /\ country_stats = NoStats
    /\ method_stats = NoStats
    /\ error = "none"
    /\ log = <<>>
    /\ missing_sheets = {}
    /\ stages = <<>>
    /\ exit_code = -1
    /\ plot_saved = FALSE
    /\ excel_saved = FALSE

table_vars == <<df0, df1, df, countries, methods>>

stat_vars == <<monthly_stats, country_stats, method_stats>>

output_vars == <<plot_saved, excel_saved>>

\* main, lines 365-373: the arguments are parsed and the run is announced
Start ==
    /\ pc = "start"
    /\ pc' = "load"
    /\ log' = log \o <<"INFO", "INFO", "INFO">>
    /\ UNCHANGED <<sheet_name, table_vars, stat_vars, error, exists, sheets, missing_sheets,
                   stages, exit_code, output_vars>>

\* load_data, lines 78-91: the path, the sheet names, then the three reads
Load ==
    /\ pc = "load"
    /\ stages' = Append(stages, "load")
    /\ IF ~exists
       THEN /\ Fail("FileNotFoundError", <<>>)
            /\ UNCHANGED <<table_vars, missing_sheets>>
       ELSE IF required_sheets_missing(DOMAIN sheets) # {}
       THEN /\ Fail("ValueError: missing sheets", <<>>)
            /\ missing_sheets' = required_sheets_missing(DOMAIN sheets)
            /\ UNCHANGED table_vars
       ELSE /\ df' = sheets["data"]
            /\ df0' = sheets["data"]
            /\ countries' = sheets["country"]
            /\ methods' = sheets["method_group"]
            /\ pc' = next_pc("load")
            /\ UNCHANGED <<df1, missing_sheets, error, exit_code, log>>
    /\ UNCHANGED <<sheet_name, stat_vars, exists, sheets, output_vars>>

sheet_of(stage) ==
    CASE stage \in {"validate data", "clean data"} -> "data"
      [] stage \in {"validate country", "clean country"} -> "country"
      [] stage \in {"validate method_group", "clean method_group"} -> "method_group"

table_of(sh) ==
    CASE sh = "data" -> df
      [] sh = "country" -> countries
      [] sh = "method_group" -> methods

\* load_data, lines 94-96: one validate_data call
Validate ==
    /\ pc \in {"validate data", "validate country", "validate method_group"}
    /\ stages' = Append(stages, pc)
    /\ sheet_name' = sheet_of(pc)
    /\ LET sh == sheet_of(pc)
           verdict == validate_data(table_of(sh), sh, required_columns(sh))
       IN  IF verdict = "ok"
           THEN /\ pc' = next_pc(pc)
                /\ log' = log \o validate_log(table_of(sh))
                /\ UNCHANGED <<error, exit_code>>
           ELSE Fail(verdict, validate_log(table_of(sh)))
    /\ UNCHANGED <<table_vars, stat_vars, exists, sheets, missing_sheets, output_vars>>

\* load_data, lines 99-101: one clean_data call (the last one also logs success)
Clean ==
    /\ pc \in {"clean data", "clean country", "clean method_group"}
    /\ stages' = Append(stages, pc)
    /\ sheet_name' = sheet_of(pc)
    /\ LET sh == sheet_of(pc)
       IN  /\ df' = IF sh = "data" THEN clean_data(df) ELSE df
           /\ countries' = IF sh = "country" THEN clean_data(countries) ELSE countries
           /\ methods' = IF sh = "method_group" THEN clean_data(methods) ELSE methods
           /\ log' = log \o clean_log(table_of(sh))
                        \o (IF sh = "method_group" THEN <<"INFO">> ELSE <<>>)
    /\ pc' = next_pc(pc)
    /\ UNCHANGED <<df0, df1, stat_vars, error, exists, sheets, missing_sheets,
                   exit_code, output_vars>>

\* main, line 377: merge_and_calculate
Merge ==
    /\ pc = "merge"
    /\ stages' = Append(stages, "merge")
    /\ IF agg_fault(df, countries, methods)
       THEN /\ Fail(reraise(agg_error(df, countries, methods)), <<>>)
            /\ UNCHANGED stat_vars
       ELSE LET res == merge_and_calculate(df, countries, methods)
            IN  /\ monthly_stats' = res.monthly_stats
                /\ country_stats' = res.country_stats
                /\ method_stats' = res.method_stats
                /\ pc' = next_pc("merge")
                /\ log' = log \o <<"INFO">>
                /\ UNCHANGED <<error, exit_code>>
    /\ UNCHANGED <<sheet_name, table_vars, exists, sheets, missing_sheets, output_vars>>

\* main, line 380: create_combined_plot; it saves the image as its last step, or
\* raises before (a style, a date that does not parse, a directory it cannot make)
Plot ==
    /\ pc = "plot"
    /\ stages' = Append(stages, "plot")
    /\ \E ok \in BOOLEAN :
          IF ok
          THEN /\ plot_saved' = TRUE
               /\ pc' = next_pc("plot")
               /\ log' = log \o <<"INFO">>
               /\ UNCHANGED <<error, exit_code>>
          ELSE /\ Fail("PlotError", <<>>)
               /\ UNCHANGED plot_saved
    /\ UNCHANGED <<sheet_name, table_vars, stat_vars, exists, sheets, missing_sheets, excel_saved>>

\* main, line 381: save_to_excel; the writer saves the workbook, or raises
Excel ==
    /\ pc = "excel"
    /\ stages' = Append(stages, "excel")
    /\ \E ok \in BOOLEAN :
          IF ok
          THEN /\ excel_saved' = TRUE
               /\ pc' = next_pc("excel")
               /\ log' = log \o <<"INFO">>
               /\ UNCHANGED <<error, exit_code>>
          ELSE /\ Fail("ExcelError", <<>>)
               /\ UNCHANGED excel_saved
    /\ UNCHANGED <<sheet_name, table_vars, stat_vars, exists, sheets, missing_sheets, plot_saved>>

\* main, lines 383-385: success is logged and main returns
Finish ==
    /\ pc = "finish"
    /\ pc' = "exited"
    /\ exit_code' = exit_status(FALSE)
    /\ log' = log \o <<"INFO", "INFO", "INFO">>
    /\ UNCHANGED <<sheet_name, table_vars, stat_vars, error, exists, sheets, missing_sheets,
                   stages, output_vars>>

Next == Start \/ Load \/ Validate \/ Clean \/ Merge \/ Plot \/ Excel \/ Finish

Spec == Init /\ [][Next]_vars

\* ---------------------------------------------------- C1..C5 aggregation
RECURSIVE stats_sum(_, _, _)
\* the sum of column c over the rows with keys ks of a summary
stats_sum(stats, c, ks) ==
    IF ks = {} THEN 0
    ELSE LET k == CHOOSE x \in ks : TRUE
         IN  stats[k][c].n + stats_sum(stats, c, ks \ {k})

RECURSIVE column_sum(_, _, _)
\* the sum of column c over the rows i..end of a table
column_sum(d, c, i) ==
    IF i > Len(d.rows) THEN 0 ELSE d.rows[i][c].n + column_sum(d, c, i + 1)

Summaries == <<monthly_stats, country_stats, method_stats>>

Max(a, b) == IF a >= b THEN a ELSE b

\* C1: the total transactions of the raw table and of each of the three
\* summaries add up to the same number, whatever the lookups contain.
C1_SumPreserved ==
    pc = "calculated" =>
        LET c == "total transactions"
            raw == column_sum(df, c, 1)
        IN  /\ raw = stats_sum(monthly_stats, c, DOMAIN monthly_stats)
            /\ raw = stats_sum(country_stats, c, DOMAIN country_stats)
            /\ raw = stats_sum(method_stats, c, DOMAIN method_stats)

\* the transaction rows whose key has no match in the lookup
unmatched(d, lookup, left_on, right_on) ==
    {i \in 1..Len(d.rows) :
        \A j \in 1..Len(lookup.rows) : lookup.rows[j][right_on] # d.rows[i][left_on]}

RECURSIVE rows_sum(_, _, _)
\* the sum of column c over the rows of d with the indices is
rows_sum(d, c, is) ==
    IF is = {} THEN 0
    ELSE LET i == CHOOSE x \in is : TRUE
         IN  d.rows[i][c].n + rows_sum(d, c, is \ {i})

unresolved_kept(d, lookup, left_on, right_on, stats) ==
    LET us == unmatched(d, lookup, left_on, right_on)
    IN  us # {} =>
           /\ NaN \in DOMAIN stats
           /\ \A c \in AggColumns : stats[NaN][c].n = rows_sum(d, c, us)

\* C2: a transaction row whose currency (method) has no match in the lookup is
\* kept: the summary has an unresolved group whose three sums hold the values
\* of the unmatched rows.
C2_UnresolvedKept ==
    pc = "calculated" =>
        /\ unresolved_kept(df, countries, "currency", "currency", country_stats)
        /\ unresolved_kept(df, methods, "method", "method_in_dwh", method_stats)

\* how many rows of the merged table come from left row i and land in a group
contributions(d, lookup, left_on, right_on, by, i) ==
    LET idx == merge_index(d, lookup, left_on, right_on, 1)
        m == merge(d, lookup, left_on, right_on)
    IN  Cardinality({p \in 1..Len(idx) : idx[p].l = i /\ m.rows[p][by] \in group_keys(m, by)})

\* C3: in each summary every transaction row is counted in exactly one group,
\* once, also when a lookup key occurs in several lookup rows.
C3_ExactlyOneGroup ==
    pc = "calculated" =>
        /\ DOMAIN country_stats = group_keys(df_with_countries(df, countries), "country")
        /\ DOMAIN method_stats = group_keys(df_with_methods(df, methods), "method_group")
        /\ \A i \in 1..Len(df.rows) :
              /\ df.rows[i]["month"] \in DOMAIN monthly_stats
              /\ contributions(df, countries, "currency", "currency", "country", i) = 1
              /\ contributions(df, methods, "method", "method_in_dwh", "method_group", i) = 1

\* C4: in every summary row approval_rate is approved / max(total, 1), and so
\* approved / total when total > 0; it is always a number.
C4_ApprovalRate ==
    pc = "calculated" =>
        \A s \in 1..3 : \A k \in DOMAIN Summaries[s] :
            LET row == Summaries[s][k]
                total == row["total transactions"].n
                approved == row["approved_ transactions"].n
                rate == row["approval_rate"]
            IN  /\ rate.t = "num"
                /\ rate.d # 0
                /\ rate.n * Max(total, 1) = approved * rate.d
                /\ total > 0 => rate.n * total = approved * rate.d

\* a group of two rows with rate 1/2
C4_Witness ==
    /\ pc = "calculated"
    /\ \E k \in DOMAIN country_stats :
          /\ country_stats[k]["total transactions"].n = 2
          /\ country_stats[k]["approved_ transactions"].n = 1
          /\ country_stats[k]["approval_rate"].n * 2 = country_stats[k]["approval_rate"].d

\* C5 as stated: a summary row whose total is 0 has approval_rate 0, whatever
\* its approved sum.
C5_ZeroTotalZeroRate ==
    pc = "calculated" =>
        \A s \in 1..3 : \A k \in DOMAIN Summaries[s] :
            Summaries[s][k]["total transactions"].n = 0 =>
                /\ Summaries[s][k]["approval_rate"].t = "num"
                /\ Summaries[s][k]["approval_rate"].n = 0

\* C5 amended: a summary row whose total is 0 has approval_rate equal to its
\* approved sum (approved / 1), hence 0 exactly when the approved sum is 0.
C5_ZeroTotalRateIsApproved ==
    pc = "calculated" =>
        \A s \in 1..3 : \A k \in DOMAIN Summaries[s] :
            LET row == Summaries[s][k]
                rate == row["approval_rate"]
            IN  row["total transactions"].n = 0 =>
                    /\ rate.t = "num"
                    /\ rate.d # 0
                    /\ rate.n = row["approved_ transactions"].n * rate.d
                    /\ (rate.n = 0) <=> (row["approved_ transactions"].n = 0)

\* a group with total 0 and a positive approved sum, and one with both 0
C5_Witness ==
    /\ pc = "calculated"
    /\ \E k \in DOMAIN monthly_stats :
          /\ monthly_stats[k]["total transactions"].n = 0
          /\ monthly_stats[k]["approved_ transactions"].n > 0
    /\ \E k \in DOMAIN monthly_stats :
          /\ monthly_stats[k]["total transactions"].n = 0
          /\ monthly_stats[k]["approved_ transactions"].n = 0

\* ------------------------------------------------------------ C6 validator
\* C6: validate_data raises exactly when the table has zero rows or lacks a
\* required column of its sheet, for each of the three sheets.
C6_ValidateRejectsIff ==
    pc \in {"validated", "failed"} =>
        /\ (pc = "failed") <=>
              (Len(df.rows) = 0 \/ required_columns(sheet_name) \ df.columns # {})
        /\ (pc = "failed") <=> (error # "none")
        /\ Len(df.rows) = 0 => error = "ValueError: empty sheet"

\* a non-empty data sheet that has some but not all required columns is rejected
C6_Witness ==
    /\ pc = "failed"
    /\ sheet_name = "data"
    /\ Len(df.rows) > 0
    /\ required_columns(sheet_name) \cap df.columns # {}
    /\ Cardinality(required_columns(sheet_name) \ df.columns) = 1

\* -------------------------------------------------------------- C7 cleaner
\* C7: after clean_data no cell is missing; a cell that was missing holds 0 in
\* a numeric column and "Unknown" in a non-numeric column other than
\* method_in_dwh; a cell that was not missing keeps its value.
C7_CleanFillsByType ==
    pc = "cleaned" =>
        \A i \in 1..Len(df0.rows) : \A c \in df0.columns :
            /\ ~isnull(df.rows[i][c])
            /\ isnull(df0.rows[i][c]) /\ c \in num_cols(df0)
                  => df.rows[i][c] = Num(0)
            /\ isnull(df0.rows[i][c]) /\ c \notin num_cols(df0) /\ c # "method_in_dwh"
                  => df.rows[i][c] = Str("Unknown")
            /\ ~isnull(df0.rows[i][c]) => df.rows[i][c] = df0.rows[i][c]

\* a table with a missing cell in a numeric and in a non-numeric column was cleaned
C7_Witness ==
    /\ pc = "cleaned"
    /\ \E i \in 1..Len(df0.rows) : \E c \in num_cols(df0) : isnull(df0.rows[i][c])
    /\ \E i \in 1..Len(df0.rows) : \E c \in cat_cols(df0) \ {"method_in_dwh"} :
          isnull(df0.rows[i][c])

\* C8: every cell of method_in_dwh that was missing before clean_data holds
\* "unknown_method" afterwards, whatever the column's element type.
C8_MethodSentinel ==
    pc = "cleaned" /\ "method_in_dwh" \in df0.columns =>
        \A i \in 1..Len(df0.rows) :
            isnull(df0.rows[i]["method_in_dwh"])
                => df.rows[i]["method_in_dwh"] = Str("unknown_method")

\* C9: cleaning is idempotent: a second clean_data returns the table of the
\* first cell for cell, the first pass having left no missing cell.
C9_CleanIdempotent ==
    /\ pc = "cleaned" => ~isnull_any(df)
    /\ pc = "cleaned_twice" => df = df1

\* a table with two missing cells went through both passes
C9_Witness ==
    /\ pc = "cleaned_twice"
    /\ \E c \in df0.columns : \E i, j \in 1..Len(df0.rows) :
          i # j /\ isnull(df0.rows[i][c]) /\ isnull(df0.rows[j][c])

\* C10: clean_data keeps the rows and the columns: same row count, same column
\* set, and every cell that was present stays in its row and column.
C10_CleanKeepsShape ==
    pc \in {"cleaned", "cleaned_twice"} =>
        /\ Len(df.rows) = Len(df0.rows)
        /\ df.columns = df0.columns
        /\ \A i \in 1..Len(df.rows) : DOMAIN df.rows[i] = df0.columns
        /\ \A i \in 1..Len(df0.rows) : i <= Len(df.rows) =>
              \A c \in df0.columns \cap df.columns :
                  ~isnull(df0.rows[i][c]) => df.rows[i][c] = df0.rows[i][c]

\* a table of several rows, one of them with a missing cell, was cleaned
C10_Witness ==
    /\ pc = "cleaned"
    /\ Len(df0.rows) >= 2
    /\ \E i \in 1..Len(df0.rows) : \E c \in df0.columns : isnull(df0.rows[i][c])
    /\ \E i \in 1..Len(df0.rows) : \A c \in df0.columns : ~isnull(df0.rows[i][c])

\* ------------------------------------------------------- C11..C16 pipeline
\* C11: the stages of a run start in the order load, the three validations,
\* the three cleanings, merge, plot, excel, and none starts after a failure.
C11_StagesInOrder ==
    /\ Len(stages) <= Len(StageOrder)
    /\ \A i \in 1..Len(stages) : stages[i] = StageOrder[i]
    /\ pc \notin {"start", "finish", "exited"} => pc = StageOrder[Len(stages) + 1]
    /\ pc = "finish" => stages = StageOrder
    /\ error # "none" => pc = "exited"

\* a run went through all ten stages
C11_Witness ==
    /\ pc = "exited"
    /\ stages = StageOrder
    /\ error = "none"

\* C12: when a run ends after a failure neither output has been written; the
\* plot and the workbook are both written or both absent.
C12_NoPartialOutputs ==
    pc = "exited" =>
        /\ plot_saved <=> excel_saved
        /\ error # "none" => ~plot_saved /\ ~excel_saved

merge_failed ==
    /\ pc = "exited"
    /\ error # "none"
    /\ Len(stages) = 8
    /\ stages[8] = "merge"

\* C13 as stated: a fault raised inside merge_and_calculate reaches the caller
\* as an AggregationError.
C13_WrappedAggregationError ==
    merge_failed => error = "AggregationError"

\* C13 amended: a fault raised inside merge_and_calculate is logged and reaches
\* the caller as the fault it is: a KeyError for an absent column, the
\* ValueError of pd.merge for key columns of different types.
C13_RawFaultEscapes ==
    merge_failed =>
        /\ error \in {"KeyError", "ValueError: merge keys"}
        /\ (key_mismatch(df, "currency", countries, "currency")
               \/ key_mismatch(df, "method", methods, "method_in_dwh"))
              <=> (error = "ValueError: merge keys")
        /\ (error = "KeyError") => (AggColumns \cup {"month"}) \ df.columns # {}
        /\ log[Len(log) - 1] = "ERROR"
        /\ monthly_stats = NoStats /\ country_stats = NoStats /\ method_stats = NoStats

\* a validated data sheet without approved_ transactions failed in the merge
C13_Witness ==
    /\ merge_failed
    /\ "approved_ transactions" \notin df.columns
    /\ error = "KeyError"

\* C14: loading fails with FileNotFoundError when the path does not exist,
\* before anything is read; with a file it fails naming exactly the required
\* sheets that are absent when there are any, and reads the three tables otherwise.
C14_LoadOutcome ==
    Len(stages) >= 1 =>
        /\ ~exists =>
              /\ error = "FileNotFoundError"
              /\ missing_sheets = {}
              /\ df = NoFrame /\ countries = NoFrame /\ methods = NoFrame
        /\ exists /\ SheetNames \ DOMAIN sheets # {} =>
              /\ error = "ValueError: missing sheets"
              /\ missing_sheets = SheetNames \ DOMAIN sheets
              /\ df = NoFrame /\ countries = NoFrame /\ methods = NoFrame
        /\ exists /\ SheetNames \subseteq DOMAIN sheets =>
              /\ error \notin {"FileNotFoundError", "ValueError: missing sheets"}
              /\ missing_sheets = {}
              /\ df0 = sheets["data"]
              /\ Len(stages) = 1 =>
                    /\ pc = "validate data"
                    /\ df = sheets["data"]
                    /\ countries = sheets["country"]
                    /\ methods = sheets["method_group"]

\* a file with the data sheet alone: the two other sheets are named
C14_Witness ==
    /\ pc = "exited"
    /\ exists
    /\ DOMAIN sheets = {"data"}
    /\ missing_sheets = {"country", "method_group"}

\* C15: a failure in any stage ends the run: the process exits with status 1
\* after a fatal log line, no stage runs twice, and status 0 is the end of a
\* run whose ten stages all succeeded.
C15_FailFastExit ==
    /\ error # "none" =>
          /\ pc = "exited"
          /\ exit_code = 1
          /\ log[Len(log)] = "CRITICAL"
    /\ pc # "exited" => exit_code = -1
    /\ pc = "exited" => exit_code \in {0, 1}
    /\ exit_code = 0 =>
          /\ error = "none"
          /\ stages = StageOrder
          /\ plot_saved /\ excel_saved
          /\ \A i \in 1..Len(log) : log[i] # "CRITICAL"
    /\ \A i, j \in 1..Len(stages) : i # j => stages[i] # stages[j]

\* a run ended by an empty sheet
C15_Witness ==
    /\ pc = "exited"
    /\ error = "ValueError: empty sheet"
    /\ exit_code = 1
    /\ Len(stages) < Len(StageOrder)

example_input ==
    /\ SheetNames \subseteq DOMAIN sheets
    /\ sheets["data"] =
          DataFrame({"month", "currency", "method"} \cup AggColumns, <<ExampleRow>>)
    /\ sheets["country"] = DataFrame({"currency", "country"}, <<CountryRow("USD", "US")>>)
    /\ sheets["method_group"] =
          DataFrame({"method_in_dwh", "method_group"}, <<MethodRow("card", "Cards")>>)

example_row(stat, key) ==
    /\ DOMAIN stat = {Str(key)}
    /\ stat[Str(key)]["total transactions"] = Num(100)
    /\ stat[Str(key)]["approved_ transactions"] = Num(80)
    /\ stat[Str(key)]["volume_usd"] = Num(10000)
    /\ stat[Str(key)]["approval_rate"].t = "num"
    /\ stat[Str(key)]["approval_rate"].d # 0
    /\ stat[Str(key)]["approval_rate"].n * 100 = 80 * stat[Str(key)]["approval_rate"].d

\* C16: for the one row (2024-01, USD, card, 100, 80, 10000) with USD -> US and
\* card -> Cards, each summary has exactly one row, keyed 2024-01, US and
\* Cards, with total 100, approved 80, volume 10000 and rate 80/100.
C16_EndToEndExample ==
    example_input /\ Len(stages) >= 8 =>
        /\ Len(stages) = 8 => pc = "plot"
        /\ example_row(monthly_stats, "2024-01")
        /\ example_row(country_stats, "US")
        /\ example_row(method_stats, "Cards")

\* the example went through merge_and_calculate
C16_Witness ==
    /\ example_input
    /\ pc = "plot"
    /\ Str("US") \in DOMAIN country_stats

\* ---------------------------------------------------------- C17 validator
\* the table of the same rows and columns with every cell holding cell
same_shape(d, cell) ==
    DataFrame(d.columns, [i \in 1..Len(d.rows) |-> [c \in d.columns |-> cell]])

\* C17: validate_data leaves the table as it was, and its verdict is that of
\* any table with the same row count and columns, with or without missing
\* cells; a missing cell only adds a warning.
C17_ValidateObservational ==
    pc \in {"validated", "failed"} =>
        /\ df = df0
        /\ (error = "none") <=>
              validate_data(same_shape(df0, Str("x")), sheet_name,
                            required_columns(sheet_name)) = "ok"
        /\ (error = "none") <=> (Len(df0.rows) > 0 /\ required_columns(sheet_name) \subseteq df0.columns)
        /\ (log = <<"WARNING">>) <=> (isnull_any(df0) /\ df0.columns # {})
        /\ log \in {<<>>, <<"WARNING">>}

\* a table with a missing cell was accepted with a warning
C17_Witness ==
    /\ pc = "validated"
    /\ isnull_any(df)
    /\ log = <<"WARNING">>

====
